---- MODULE Spec2Model ----
(***************************************************************************)
(* Model of the two utilities of the repository:                           *)
(*   github-task-sync/scripts/sync_tasks.py  (task synchroniser)           *)
(*   .github/scripts/build_skills.py         (skill package builder)       *)
(*                                                                         *)
(* Python str values are modelled as sequences of one-character strings    *)
(* (URLs, repository identifiers) or of opaque tokens (titles, issue       *)
(* references); the empty sequence is the empty string.                    *)
(***************************************************************************)
EXTENDS Integers, Sequences, FiniteSets, TLC

(* ---------------------------- bounds ----------------------------------- *)
MaxNameLen == 2      \* longest owner / repository name fed to the URL parser
MaxTasks   == 2      \* most tasks gathered from all task sources together
MaxRemotes == 2      \* most configured git remotes
MaxSkills  == 3      \* most candidate skill directories under the root

(* ---------------------------- Python values ---------------------------- *)
None    == <<"None">>        \* Python None where a str is expected
NoneInt == -1                \* Python None where an int is expected

Truthy(s)    == s # None /\ s # <<>>          \* bool(s) for Optional[str]
TruthyInt(n) == n # NoneInt /\ n # 0          \* bool(n) for Optional[int]

(* ---------------------------- URL parsing ------------------------------ *)
GITHUB  == <<"g","i","t","h","u","b",".","c","o","m">>
GITAT   == <<"g","i","t","@">>
HTTPS   == <<"h","t","t","p","s",":","/","/">>
DOTGIT  == <<".","g","i","t">>
SLASH   == <<"/">>
COLON   == <<":">>

StartsWithAt(s, i, p) ==
    /\ i >= 1
    /\ i + Len(p) - 1 <= Len(s)
    /\ \A k \in 1..Len(p) : s[i + k - 1] = p[k]

EndsWith(s, p) ==
    /\ Len(s) >= Len(p)
    /\ SubSeq(s, Len(s) - Len(p) + 1, Len(s)) = p

SlashPositions(s) == { k \in 1..Len(s) : s[k] = "/" }

\* ([^/]+/[^/]+?)(\.git)?$ matched against the whole of rest
GroupMatches(rest) ==
    /\ Cardinality(SlashPositions(rest)) = 1
    /\ \E k \in SlashPositions(rest) : 1 < k /\ k < Len(rest)

\* group(1): the lazy [^/]+? leaves a trailing ".git" to the optional group
\* whenever at least one character of the repository part stays in front of it
Group1(rest) ==
    LET k == CHOOSE k \in SlashPositions(rest) : TRUE
        y == SubSeq(rest, k + 1, Len(rest))
    IN  IF EndsWith(y, DOTGIT) /\ Len(y) > Len(DOTGIT)
        THEN SubSeq(rest, 1, Len(rest) - Len(DOTGIT))
        ELSE rest

\* str.rstrip(chars): drops every trailing character that is in the set chars
RECURSIVE rstrip(_, _)
rstrip(s, chars) ==
    IF s # <<>> /\ s[Len(s)] \in chars
    THEN rstrip(SubSeq(s, 1, Len(s) - 1), chars)
    ELSE s

DotGitChars == {".", "g", "i", "t"}

\* re.search(r'github\.com[/:]([^/]+/[^/]+?)(\.git)?$', url): match positions
HttpsMatchAt(url, i) ==
    /\ StartsWithAt(url, i, GITHUB)
    /\ i + Len(GITHUB) <= Len(url)
    /\ url[i + Len(GITHUB)] \in {"/", ":"}
    /\ GroupMatches(SubSeq(url, i + Len(GITHUB) + 1, Len(url)))

\* re.search(r'git@github\.com:([^/]+/[^/]+?)(\.git)?$', url): match positions
SshMatchAt(url, i) ==
    /\ StartsWithAt(url, i, GITAT \o GITHUB \o COLON)
    /\ GroupMatches(SubSeq(url, i + Len(GITAT \o GITHUB \o COLON), Len(url)))

Leftmost(S) == CHOOSE i \in S : \A j \in S : i <= j

StripSuffix(s) == rstrip(s, DotGitChars)

_parse_github_url(url) ==
    LET hs == { i \in 1..Len(url) : HttpsMatchAt(url, i) }
        ss == { i \in 1..Len(url) : SshMatchAt(url, i) }
    IN  IF hs # {}
        THEN StripSuffix(Group1(SubSeq(url, Leftmost(hs) + Len(GITHUB) + 1, Len(url))))
        ELSE IF ss # {}
        THEN StripSuffix(Group1(SubSeq(url,
                 Leftmost(ss) + Len(GITAT \o GITHUB \o COLON), Len(url))))
        ELSE None

(* ======================================================================= *)
(* State                                                                   *)
(* ======================================================================= *)
VARIABLES
    \* --- URL parser harness
    p_owner, p_repo, p_form, p_url, p_result, p_pc,
    \* --- task synchroniser: command line, git configuration, program state
    arg_repo, arg_project_number, arg_tasks_file, arg_task, arg_json_tasks,
    git_ok, remotes,
    pc, tasks, self_repo, self_project_number, idx, issue_url, results,
    calls, exit_status,
    \* --- package builder: root directory, program state
    dirs, listing, b_pc, skills, pos, zips, zip_log, readme, b_exit

parseVars == <<p_owner, p_repo, p_form, p_url, p_result, p_pc>>
syncVars  == <<arg_repo, arg_project_number, arg_tasks_file, arg_task,
               arg_json_tasks, git_ok, remotes, pc, tasks, self_repo,
               self_project_number, idx, issue_url, results, calls,
               exit_status>>
buildVars == <<dirs, listing, b_pc, skills, pos, zips, zip_log, readme, b_exit>>
vars      == <<parseVars, syncVars, buildVars>>

\* the parts of the state a specification does not use stay at these values
ParseIdle ==
    /\ p_owner = <<>> /\ p_repo = <<>> /\ p_form = "none" /\ p_url = <<>>
    /\ p_result = None /\ p_pc = "idle"
SyncIdle ==
    /\ arg_repo = None /\ arg_project_number = NoneInt
    /\ arg_tasks_file = [given |-> FALSE, found |-> FALSE, tasks |-> <<>>]
    /\ arg_task = <<>>
    /\ arg_json_tasks = [given |-> FALSE, valid |-> FALSE, tasks |-> <<>>]
    /\ git_ok = FALSE /\ remotes = <<>>
    /\ pc = "idle" /\ tasks = <<>> /\ self_repo = None
    /\ self_project_number = NoneInt /\ idx = 0 /\ issue_url = None
    /\ results = [unset |-> TRUE] /\ calls = <<>> /\ exit_status = NoneInt
BuildIdle ==
    /\ dirs = {} /\ listing = <<>> /\ b_pc = "idle" /\ skills = <<>>
    /\ pos = 0 /\ zips = <<>> /\ zip_log = <<>> /\ readme = FALSE
    /\ b_exit = NoneInt

(* ======================================================================= *)
(* URL parser harness: _parse_github_url applied to the four remote forms  *)
(* ======================================================================= *)
NameAlphabet == {"w", "k", "t"}

RECURSIVE SeqsUpTo(_, _)
SeqsUpTo(S, n) ==
    IF n = 0 THEN { <<>> }
    ELSE LET shorter == SeqsUpTo(S, n - 1)
         IN  shorter \cup { Append(s, x) : s \in shorter, x \in S }

Names == SeqsUpTo(NameAlphabet, MaxNameLen) \ { <<>> }

Forms == {"https_git", "https", "ssh_git", "ssh"}

MakeUrl(form, owner, repo) ==
    LET id == owner \o SLASH \o repo
    IN  CASE form = "https_git" -> HTTPS \o GITHUB \o SLASH \o id \o DOTGIT
          [] form = "https"     -> HTTPS \o GITHUB \o SLASH \o id
          [] form = "ssh_git"   -> GITAT \o GITHUB \o COLON \o id \o DOTGIT
          [] form = "ssh"       -> GITAT \o GITHUB \o COLON \o id

InitParse ==
    /\ p_owner \in Names
    /\ p_repo \in Names
    /\ p_form \in Forms
    /\ p_url = MakeUrl(p_form, p_owner, p_repo)
    /\ p_result = None
    /\ p_pc = "start"
    /\ SyncIdle /\ BuildIdle

ParseUrl ==
    /\ p_pc = "start"
    /\ p_result' = _parse_github_url(p_url)
    /\ p_pc' = "done"
    /\ UNCHANGED <<p_owner, p_repo, p_form, p_url, syncVars, buildVars>>

NextParse == ParseUrl

SpecParse == InitParse /\ [][NextParse]_vars

\* C5: for every owner and repository name, each of the four remote forms
\* parses to exactly <owner>/<repo> (only an optional trailing .git is removed)
C5_ParsesToOwnerRepo ==
    p_pc = "done" => p_result = p_owner \o SLASH \o p_repo

(* ======================================================================= *)
(* Task synchroniser: main() and GitHubProjectSync.sync_tasks              *)
(* ======================================================================= *)
\* fixed remote URLs the git configuration is drawn from
UrlWidgets == HTTPS \o GITHUB \o SLASH \o <<"a","c","m","e","/","w","e","b">> \o DOTGIT
UrlGitlab  == HTTPS \o <<"g","i","t","l","a","b",".","c","o","m">> \o SLASH
                    \o <<"a","c","m","e","/","w","e","b">> \o DOTGIT
RemoteUrls  == {UrlWidgets, UrlGitlab}
RemoteNames == {"fork", "origin", "upstream"}

ExplicitRepo == <<"c","l","i","/","r","e","p","o">>

\* task dictionaries; a dictionary may lack the 'title' key
TitleA       == <<"A">>
FlagTitles   == {<<>>, TitleA}                 \* --task accepts any string
FileTasks    == {[title |-> TitleA]}            \* parse_markdown_tasks keeps non-empty titles
JsonTasks    == {[title |-> TitleA], [body |-> <<"B">>]}

\* dict.get(key) with default None
Get(d, key) == IF key \in DOMAIN d THEN d[key] ELSE None

\* sequences over S of length at most n
BoundedSeqs(S, n) == SeqsUpTo(S, n)

\* 'git remote' lists the remotes sorted by name
RemoteRank(name) ==
    CASE name = "fork" -> 1 [] name = "origin" -> 2 [] name = "upstream" -> 3

ListedInOrder(rs) ==
    \A j, k \in 1..Len(rs) : j < k => RemoteRank(rs[j].name) < RemoteRank(rs[k].name)

RemoteConfigs ==
    { rs \in BoundedSeqs([name : RemoteNames, url : RemoteUrls], MaxRemotes) :
        ListedInOrder(rs) }

InitSync ==
    /\ arg_repo \in {None, <<>>, ExplicitRepo}
    /\ arg_project_number \in {NoneInt, 7}
    /\ arg_tasks_file \in
          {[given |-> FALSE, found |-> FALSE, tasks |-> <<>>],
           [given |-> TRUE,  found |-> FALSE, tasks |-> <<>>]}
          \cup { [given |-> TRUE, found |-> TRUE, tasks |-> ts] :
                     ts \in BoundedSeqs(FileTasks, 1) \ { <<>> } }
    /\ arg_task \in BoundedSeqs(FlagTitles, MaxTasks)
    /\ arg_json_tasks \in
          {[given |-> FALSE, valid |-> FALSE, tasks |-> <<>>],
           [given |-> TRUE,  valid |-> FALSE, tasks |-> <<>>]}
          \cup { [given |-> TRUE, valid |-> TRUE, tasks |-> ts] :
                     ts \in BoundedSeqs(JsonTasks, MaxTasks) }
    /\ Len(arg_tasks_file.tasks) + Len(arg_task) + Len(arg_json_tasks.tasks)
          <= MaxTasks
    /\ git_ok \in BOOLEAN                    \* FALSE: not inside a git work tree
    /\ remotes \in RemoteConfigs
    /\ ~git_ok => remotes = <<>>
    /\ pc = "main"
    /\ tasks = <<>>
    /\ self_repo = None
    /\ self_project_number = NoneInt
    /\ idx = 0
    /\ issue_url = None
    /\ results = [unset |-> TRUE]
    /\ calls = <<>>
    /\ exit_status = NoneInt
    /\ ParseIdle /\ BuildIdle

Call(op, task, ok, ref) == [op |-> op, task |-> task, ok |-> ok, ref |-> ref]

\* variant: a failed precondition still reports the per-task lists
TopLevelFailure_Partial(error) ==
    [success |-> FALSE, error |-> error, synced_tasks |-> <<>>, failed_tasks |-> <<>>]

TopLevelFailure(error) == [success |-> FALSE, error |-> error]

\* main(), lines 253-284: gather the tasks, then construct the syncer
GatheredTasks ==
    arg_tasks_file.tasks
        \o [k \in 1..Len(arg_task) |-> [title |-> arg_task[k]]]
        \o arg_json_tasks.tasks

GatherTasks ==
    /\ pc = "main"
    /\ IF arg_tasks_file.given /\ ~arg_tasks_file.found
       THEN /\ exit_status' = 1 /\ pc' = "exited"
            /\ UNCHANGED <<tasks, self_repo, self_project_number>>
       ELSE IF arg_json_tasks.given /\ ~arg_json_tasks.valid
       THEN /\ exit_status' = 1 /\ pc' = "exited"
            /\ UNCHANGED <<tasks, self_repo, self_project_number>>
       ELSE IF GatheredTasks = <<>>
       THEN /\ exit_status' = 1 /\ pc' = "exited"
            /\ UNCHANGED <<tasks, self_repo, self_project_number>>
       ELSE /\ tasks' = GatheredTasks
            /\ self_repo' = arg_repo
            /\ self_project_number' = arg_project_number
            /\ pc' = "check_gh_cli"
            /\ UNCHANGED exit_status
    /\ UNCHANGED <<arg_repo, arg_project_number, arg_tasks_file, arg_task,
                   arg_json_tasks, git_ok, remotes, idx, issue_url, results,
                   calls, parseVars, buildVars>>

\* sync_tasks, lines 146-150; check_gh_cli is the external tool's answer
CheckGhCli ==
    /\ pc = "check_gh_cli"
    /\ \E ok \in BOOLEAN :
         /\ calls' = Append(calls, Call("check_gh_cli", 0, ok, None))
         /\ IF ~ok
            THEN /\ results' = TopLevelFailure("gh CLI not installed or not authenticated")
                 /\ pc' = "output"
            ELSE /\ pc' = "determine_repo"
                 /\ UNCHANGED results
    /\ UNCHANGED <<arg_repo, arg_project_number, arg_tasks_file, arg_task,
                   arg_json_tasks, git_ok, remotes, tasks, self_repo,
                   self_project_number, idx, issue_url, exit_status,
                   parseVars, buildVars>>

HasRemote(name) == \E k \in 1..Len(remotes) : remotes[k].name = name
UrlOf(name) == remotes[CHOOSE k \in 1..Len(remotes) : remotes[k].name = name].url

OriginFallback == git_ok /\ ~HasRemote("origin") /\ remotes # <<>>

\* variant: the first listed remote is taken whether or not origin exists
get_origin_remote_FirstRemote ==
    IF git_ok /\ remotes # <<>>
    THEN _parse_github_url(remotes[1].url)
    ELSE None

get_origin_remote ==
    IF git_ok /\ HasRemote("origin")
    THEN _parse_github_url(UrlOf("origin"))
    ELSE IF OriginFallback
    THEN _parse_github_url(remotes[1].url)
    ELSE None

\* sync_tasks, lines 152-159
DetermineRepo ==
    /\ pc = "determine_repo"
    /\ IF ~Truthy(self_repo)
       THEN /\ self_repo' = get_origin_remote
            /\ calls' = Append(calls, Call("get_origin_remote", 0,
                                           Truthy(get_origin_remote),
                                           get_origin_remote))
            /\ IF ~Truthy(get_origin_remote)
               THEN /\ results' = TopLevelFailure("Could not determine GitHub repository")
                    /\ pc' = "output"
               ELSE /\ pc' = "determine_project"
                    /\ UNCHANGED results
       ELSE /\ pc' = "determine_project"
            /\ UNCHANGED <<self_repo, calls, results>>
    /\ UNCHANGED <<arg_repo, arg_project_number, arg_tasks_file, arg_task,
                   arg_json_tasks, git_ok, remotes, tasks,
                   self_project_number, idx, issue_url, exit_status,
                   parseVars, buildVars>>

\* list_projects: the tool fails, prints unparseable output, or lists the
\* owner's projects (an entry may lack 'number')
ProjectListings ==
    {[kind |-> "error", projects |-> <<>>],
     [kind |-> "badjson", projects |-> <<>>]}
    \cup { [kind |-> "ok", projects |-> ps] :
             ps \in {<<>>, <<NoneInt>>, <<0>>, <<5, 3>>} }

list_projects(answer) == IF answer.kind = "ok" THEN answer.projects ELSE <<>>

get_first_project(answer) ==
    LET projects == list_projects(answer)
    IN  IF projects # <<>> /\ Len(projects) > 0 THEN projects[1] ELSE NoneInt

NewResults(repo, project_number) ==
    [success |-> TRUE, repo |-> repo, project_number |-> project_number,
     synced_tasks |-> <<>>, failed_tasks |-> <<>>]

\* sync_tasks, lines 161-177
DetermineProject ==
    /\ pc = "determine_project"
    /\ IF ~TruthyInt(self_project_number)
       THEN \E answer \in ProjectListings :
              LET n == get_first_project(answer)
              IN  /\ self_project_number' = n
                  /\ calls' = Append(calls, Call("get_first_project", 0,
                                                 TruthyInt(n), None))
                  /\ IF ~TruthyInt(n)
                     THEN /\ results' = TopLevelFailure("No projects found")
                          /\ pc' = "output"
                          /\ UNCHANGED idx
                     ELSE /\ results' = NewResults(self_repo, n)
                          /\ idx' = 1
                          /\ pc' = "loop"
       ELSE /\ results' = NewResults(self_repo, self_project_number)
            /\ idx' = 1
            /\ pc' = "loop"
            /\ UNCHANGED <<self_project_number, calls>>
    /\ UNCHANGED <<arg_repo, arg_project_number, arg_tasks_file, arg_task,
                   arg_json_tasks, git_ok, remotes, tasks, self_repo,
                   issue_url, exit_status, parseVars, buildVars>>

\* the issue reference printed by the tool for the issue of task k
IssueRef(k) == <<"issue/" \o ToString(k)>>

\* create_issue: CalledProcessError (None), or the tool's stripped stdout
CreateOutcomes(k) == {None, <<>>, IssueRef(k)}

\* one iteration of 'for task in tasks' is over; the loop ends after the last
AfterTask == IF idx + 1 > Len(tasks) THEN "output" ELSE "loop"

Failed(k, error) == [task |-> k, error |-> error]
\* variant: the failure entry drops the reference of the created issue
FailedWithUrl_NoUrl(k, error, url) == [task |-> k, error |-> error]

FailedWithUrl(k, error, url) == [task |-> k, error |-> error, issue_url |-> url]
Synced(k, url) == [task |-> k, issue_url |-> url]

\* variant: failures are recorded newest first
AddFailed_Prepend(entry) ==
    [results EXCEPT !.failed_tasks = <<entry>> \o results.failed_tasks]

AddFailed(entry) ==
    [results EXCEPT !.failed_tasks = Append(results.failed_tasks, entry)]
AddSynced(entry) ==
    [results EXCEPT !.synced_tasks = Append(results.synced_tasks, entry)]

\* variant: a task without a title ends the batch
TaskNoTitle_Abort ==
    /\ pc = "loop"
    /\ idx <= Len(tasks)
    /\ ~Truthy(Get(tasks[idx], "title"))
    /\ results' = AddFailed(Failed(idx, "No title provided"))
    /\ idx' = idx + 1
    /\ pc' = "output"
    /\ UNCHANGED <<arg_repo, arg_project_number, arg_tasks_file, arg_task,
                   arg_json_tasks, git_ok, remotes, tasks, self_repo,
                   self_project_number, issue_url, calls, exit_status,
                   parseVars, buildVars>>

\* sync_tasks, lines 179-186: a task without a title
TaskNoTitle ==
    /\ pc = "loop"
    /\ idx <= Len(tasks)
    /\ ~Truthy(Get(tasks[idx], "title"))
    /\ results' = AddFailed(Failed(idx, "No title provided"))
    /\ idx' = idx + 1
    /\ pc' = AfterTask
    /\ UNCHANGED <<arg_repo, arg_project_number, arg_tasks_file, arg_task,
                   arg_json_tasks, git_ok, remotes, tasks, self_repo,
                   self_project_number, issue_url, calls, exit_status,
                   parseVars, buildVars>>

\* variant: a failed create_issue is tried a second time
CreateIssue_RetryOnce ==
    /\ pc = "loop"
    /\ idx <= Len(tasks)
    /\ Truthy(Get(tasks[idx], "title"))
    /\ \E out \in CreateOutcomes(idx) :
         /\ calls' = Append(calls, Call("create_issue", idx, out # None, out))
         /\ issue_url' = out
         /\ IF ~Truthy(out)
            THEN IF \E j \in 1..Len(calls) :
                       calls[j].op = "create_issue" /\ calls[j].task = idx
                 THEN /\ results' = AddFailed(Failed(idx, "Failed to create issue"))
                      /\ idx' = idx + 1
                      /\ pc' = AfterTask
                 ELSE /\ pc' = "loop"
                      /\ UNCHANGED <<results, idx>>
            ELSE /\ pc' = "add_issue_to_project"
                 /\ UNCHANGED <<results, idx>>
    /\ UNCHANGED <<arg_repo, arg_project_number, arg_tasks_file, arg_task,
                   arg_json_tasks, git_ok, remotes, tasks, self_repo,
                   self_project_number, exit_status, parseVars, buildVars>>

\* sync_tasks, lines 188-198
CreateIssue ==
    /\ pc = "loop"
    /\ idx <= Len(tasks)
    /\ Truthy(Get(tasks[idx], "title"))
    /\ \E out \in CreateOutcomes(idx) :
         /\ calls' = Append(calls, Call("create_issue", idx, out # None, out))
         /\ issue_url' = out
         /\ IF ~Truthy(out)
            THEN /\ results' = AddFailed(Failed(idx, "Failed to create issue"))
                 /\ idx' = idx + 1
                 /\ pc' = AfterTask
            ELSE /\ pc' = "add_issue_to_project"
                 /\ UNCHANGED <<results, idx>>
    /\ UNCHANGED <<arg_repo, arg_project_number, arg_tasks_file, arg_task,
                   arg_json_tasks, git_ok, remotes, tasks, self_repo,
                   self_project_number, exit_status, parseVars, buildVars>>

\* sync_tasks, lines 200-211
AddIssueToProject ==
    /\ pc = "add_issue_to_project"
    /\ \E ok \in BOOLEAN :
         /\ calls' = Append(calls, Call("add_issue_to_project", idx, ok, issue_url))
         /\ results' =
              IF ok
              THEN AddSynced(Synced(idx, issue_url))
              ELSE AddFailed(FailedWithUrl(idx,
                       "Issue created but failed to add to project", issue_url))
    /\ idx' = idx + 1
    /\ pc' = AfterTask
    /\ UNCHANGED <<arg_repo, arg_project_number, arg_tasks_file, arg_task,
                   arg_json_tasks, git_ok, remotes, tasks, self_repo,
                   self_project_number, issue_url, exit_status,
                   parseVars, buildVars>>

\* main(), lines 286-293 (returning from main is exit status 0)
\* variant: failed tasks do not change the exit status
ExitStatus_NoPartial(res) == IF ~res.success THEN 1 ELSE 0

ExitStatus(res) ==
    IF ~res.success THEN 1
    ELSE IF res.failed_tasks # <<>> THEN 2
    ELSE 0

Output ==
    /\ pc = "output"
    /\ exit_status' = ExitStatus(results)
    /\ pc' = "exited"
    /\ UNCHANGED <<arg_repo, arg_project_number, arg_tasks_file, arg_task,
                   arg_json_tasks, git_ok, remotes, tasks, self_repo,
                   self_project_number, idx, issue_url, results, calls,
                   parseVars, buildVars>>

Next ==
    \/ GatherTasks
    \/ CheckGhCli
    \/ DetermineRepo
    \/ DetermineProject
    \/ TaskNoTitle
    \/ CreateIssue
    \/ AddIssueToProject
    \/ Output

Spec == InitSync /\ [][Next]_vars

(* ======================================================================= *)
(* Package builder: find_skills, create_skill_zips, main                   *)
(* ======================================================================= *)
\* str comparison of Python (lexicographic by code point) on the characters used
Ord(c) == CASE c = "a" -> 1 [] c = "b" -> 2 [] c = "c" -> 3

RECURSIVE StrLess(_, _)
StrLess(s, t) ==
    IF t = <<>> THEN FALSE
    ELSE IF s = <<>> THEN TRUE
    ELSE IF Ord(Head(s)) # Ord(Head(t)) THEN Ord(Head(s)) < Ord(Head(t))
    ELSE StrLess(Tail(s), Tail(t))

\* directory entries of the root; the file system keeps entry names distinct
EntryNames    == {"dir1", "dir2", "dir3", ".hidden", "venv"}
ExcludedNames == {"__pycache__", ".git", "venv", "env"}
ManifestNames == {<<"a">>, <<"a", "b">>, <<"b">>}

\* is_dir: the entry is a directory; manifest: "none" (no SKILL.md),
\* "noname" (metadata without 'name') or "named" (metadata with 'name' = name)
Entry(entry, is_dir, manifest, name) ==
    [entry |-> entry, is_dir |-> is_dir, manifest |-> manifest, name |-> name]

\* what may sit in the root under one entry name
EntryChoices(entry) ==
    IF entry \in {"dir1", "dir2", "dir3"}
    THEN {Entry(entry, FALSE, "none", None), Entry(entry, TRUE, "none", None),
          Entry(entry, TRUE, "noname", None)}
         \cup { Entry(entry, TRUE, "named", n) : n \in ManifestNames }
    ELSE {Entry(entry, TRUE, "named", <<"a">>)}

\* the roots over a set of entry names: every name is absent or holds one of
\* its choices, and at most MaxSkills entries are present
RECURSIVE RootsOver(_)
RootsOver(names) ==
    IF names = {} THEN { {} }
    ELSE LET e    == CHOOSE e \in names : TRUE
             rest == RootsOver(names \ {e})
         IN  rest \cup { S \cup {d} : S \in { R \in rest : Cardinality(R) < MaxSkills },
                                      d \in EntryChoices(e) }

Roots == RootsOver(EntryNames)

StartsWithDot(entry) == entry \in {".hidden", ".git"}

\* extract_yaml_preamble, reduced to the keys find_skills reads
extract_yaml_preamble(d) ==
    IF d.manifest = "named" THEN [name |-> d.name] ELSE [other |-> None]

IsSkill(d) ==
    /\ d.is_dir /\ ~StartsWithDot(d.entry)
    /\ d.entry \notin ExcludedNames
    /\ d.manifest # "none"
    /\ "name" \in DOMAIN extract_yaml_preamble(d)

SkillOf(d) == [name |-> extract_yaml_preamble(d).name, path |-> d.entry]

\* sorted(skills, key=name): stable insertion behind every key that is not greater
RECURSIVE InsertByName(_, _)
InsertByName(sorted, x) ==
    IF sorted = <<>> THEN <<x>>
    ELSE IF StrLess(x.name, Head(sorted).name)
    THEN <<x>> \o sorted
    ELSE <<Head(sorted)>> \o InsertByName(Tail(sorted), x)

RECURSIVE SortedByName(_)
SortedByName(list) ==
    IF list = <<>> THEN <<>>
    ELSE InsertByName(SortedByName(SubSeq(list, 1, Len(list) - 1)),
                      list[Len(list)])

RECURSIVE SelectSkills(_)
SelectSkills(list) ==
    IF list = <<>> THEN <<>>
    ELSE IF IsSkill(Head(list))
    THEN <<SkillOf(Head(list))>> \o SelectSkills(Tail(list))
    ELSE SelectSkills(Tail(list))

find_skills(list) == SortedByName(SelectSkills(list))

\* the orders in which os.listdir may return a set of entries
Listings(S) ==
    { l \in [1..Cardinality(S) -> S] : \A d \in S : \E k \in DOMAIN l : l[k] = d }

\* content of <name>.zip in the root: "absent", "old" (left by an earlier
\* build), "partial" (left by a failed make_archive) or the archived directory
InitBuild ==
    /\ dirs \in Roots
    /\ zips \in [ManifestNames -> {"absent", "old"}]
    /\ listing = <<>>
    /\ b_pc = "find_skills"
    /\ skills = <<>>
    /\ pos = 0
    /\ zip_log = <<>>
    /\ readme = FALSE
    /\ b_exit = NoneInt
    /\ ParseIdle /\ SyncIdle

\* main, lines 149-153
FindSkills ==
    /\ b_pc = "find_skills"
    /\ \E l \in Listings(dirs) :
         /\ listing' = l
         /\ skills' = find_skills(l)
         /\ IF find_skills(l) = <<>>
            THEN /\ b_pc' = "exited" /\ b_exit' = 0 /\ UNCHANGED pos
            ELSE /\ b_pc' = "create_skill_zips" /\ pos' = 1 /\ UNCHANGED b_exit
    /\ UNCHANGED <<dirs, zips, zip_log, readme, parseVars, syncVars>>

ZipEvent(op, k, name, ok) == [op |-> op, pos |-> k, name |-> name, ok |-> ok]

Unlinked(log, k, name) ==
    IF zips[name] # "absent" THEN Append(log, ZipEvent("unlink", k, name, TRUE))
    ELSE log

\* variant: a failed archive is reported and the batch goes on
ArchiveSkill_Continue ==
    /\ b_pc = "create_skill_zips"
    /\ pos <= Len(skills)
    /\ LET skill == skills[pos]
       IN  \E ok \in BOOLEAN, left \in {"absent", "partial"} :
             /\ zip_log' = Append(Unlinked(zip_log, pos, skill.name),
                                  ZipEvent("make_archive", pos, skill.name, ok))
             /\ zips' = [zips EXCEPT ![skill.name] = IF ok THEN skill.path ELSE left]
             /\ pos' = pos + 1
             /\ b_pc' = IF pos + 1 > Len(skills) THEN "readme"
                        ELSE "create_skill_zips"
             /\ UNCHANGED b_exit
    /\ UNCHANGED <<dirs, listing, skills, readme, parseVars, syncVars>>

\* create_skill_zips, lines 93-116 for the skill at pos, and main, lines 159-160
ArchiveSkill ==
    /\ b_pc = "create_skill_zips"
    /\ pos <= Len(skills)
    /\ LET skill == skills[pos]
       IN  \E ok \in BOOLEAN, left \in {"absent", "partial"} :
             /\ zip_log' = Append(Unlinked(zip_log, pos, skill.name),
                                  ZipEvent("make_archive", pos, skill.name, ok))
             /\ IF ok
                THEN /\ zips' = [zips EXCEPT ![skill.name] = skill.path]
                     /\ pos' = pos + 1
                     /\ b_pc' = IF pos + 1 > Len(skills) THEN "readme"
                                ELSE "create_skill_zips"
                     /\ UNCHANGED b_exit
                ELSE /\ zips' = [zips EXCEPT ![skill.name] = left]
                     /\ b_pc' = "exited"
                     /\ b_exit' = 1
                     /\ UNCHANGED pos
    /\ UNCHANGED <<dirs, listing, skills, readme, parseVars, syncVars>>

\* main, lines 162-170
WriteReadme ==
    /\ b_pc = "readme"
    /\ readme' = TRUE
    /\ b_exit' = 0
    /\ b_pc' = "exited"
    /\ UNCHANGED <<dirs, listing, skills, pos, zips, zip_log, parseVars, syncVars>>

NextBuild == FindSkills \/ ArchiveSkill \/ WriteReadme

SpecBuild == InitBuild /\ [][NextBuild]_vars

(* ======================================================================= *)
(* Properties of the task synchroniser                                     *)
(* ======================================================================= *)
TaskIds == 1..Len(tasks)

CallIdx(op, k) == { j \in 1..Len(calls) : calls[j].op = op /\ calls[j].task = k }
Called(op, k)  == CallIdx(op, k) # {}
TheCall(op, k) == calls[CHOOSE j \in CallIdx(op, k) : TRUE]

\* sync_tasks got past the preconditions and built the per-task result
HasTaskResult == "synced_tasks" \in DOMAIN results
IsTopLevelFailure == DOMAIN results = {"success", "error"}

FailedIdx(k) == { j \in 1..Len(results.failed_tasks) : results.failed_tasks[j].task = k }
SyncedIdx(k) == { j \in 1..Len(results.synced_tasks) : results.synced_tasks[j].task = k }

CreateSucceeded(k) == Called("create_issue", k) /\ Truthy(TheCall("create_issue", k).ref)
LinkFailed(k) ==
    Called("add_issue_to_project", k) /\ ~TheCall("add_issue_to_project", k).ok
LinkSucceeded(k) ==
    Called("add_issue_to_project", k) /\ TheCall("add_issue_to_project", k).ok

PartialFailure(k) == CreateSucceeded(k) /\ LinkFailed(k)

\* C1: a task whose issue was created and whose project-linking then failed
\* is recorded once in failed_tasks with the error 'Issue created but failed
\* to add to project' and the created issue's reference, is not in
\* synced_tasks, sees no further tool call (no rollback), and the process
\* exits with status 2
C1_PartialFailureRecorded ==
    \A k \in TaskIds :
        PartialFailure(k) =>
            /\ HasTaskResult
            /\ Cardinality(FailedIdx(k)) = 1
            /\ \A j \in FailedIdx(k) :
                 LET e == results.failed_tasks[j]
                 IN  /\ e.error = "Issue created but failed to add to project"
                     /\ "issue_url" \in DOMAIN e
                     /\ e.issue_url = TheCall("create_issue", k).ref
                     /\ e.issue_url = IssueRef(k)
            /\ SyncedIdx(k) = {}
            /\ \A j \in 1..Len(calls) :
                 calls[j].task = k =>
                     j <= (CHOOSE a \in CallIdx("add_issue_to_project", k) : TRUE)
            /\ Cardinality(CallIdx("create_issue", k)) = 1
            /\ pc = "exited" => exit_status = 2

C1_Witness ==
    /\ pc = "exited"
    /\ exit_status = 2
    /\ \E k \in TaskIds : PartialFailure(k)

PreconditionOps == {"check_gh_cli", "get_origin_remote", "get_first_project"}
TaskOps == {"create_issue", "add_issue_to_project"}

PreconditionFailed ==
    \E j \in 1..Len(calls) : calls[j].op \in PreconditionOps /\ ~calls[j].ok

OpRank(op) ==
    CASE op = "check_gh_cli"      -> 1
      [] op = "get_origin_remote" -> 2
      [] op = "get_first_project" -> 3
      [] OTHER                    -> 4

ErrorOf(op) ==
    CASE op = "check_gh_cli"      -> "gh CLI not installed or not authenticated"
      [] op = "get_origin_remote" -> "Could not determine GitHub repository"
      [] op = "get_first_project" -> "No projects found"

\* C2: the preconditions are checked in the order tool, repository, project
\* and before any task is processed; when one of them fails no create_issue
\* and no add_issue_to_project call is ever made and the result is a
\* top-level failure naming the missing piece, without synced_tasks or
\* failed_tasks
C2_PreconditionsFirst ==
    /\ \A i, j \in 1..Len(calls) :
         i < j =>
            /\ OpRank(calls[i].op) <= OpRank(calls[j].op)
            /\ calls[j].op \in PreconditionOps => OpRank(calls[i].op) < OpRank(calls[j].op)
            /\ calls[i].op \in PreconditionOps => calls[i].ok
    /\ calls # <<>> => calls[1].op = "check_gh_cli"
    /\ PreconditionFailed =>
         /\ \A j \in 1..Len(calls) : calls[j].op \notin TaskOps
         /\ pc \in {"output", "exited"}
         /\ IsTopLevelFailure
         /\ results.success = FALSE
         /\ results.error = ErrorOf(calls[Len(calls)].op)
         /\ pc = "exited" => exit_status = 1
    /\ (\E j \in 1..Len(calls) : calls[j].op \in TaskOps) =>
         /\ Truthy(self_repo) /\ TruthyInt(self_project_number)
         /\ HasTaskResult

C2_Witness ==
    /\ pc = "exited"
    /\ Len(calls) = 3
    /\ calls[3].op = "get_first_project" /\ ~calls[3].ok
    /\ Len(tasks) = MaxTasks

\* the outcomes of the environment, independent of what the program records
TasksFileMissing == arg_tasks_file.given /\ ~arg_tasks_file.found
JsonMalformed    == arg_json_tasks.given /\ ~arg_json_tasks.valid
NoTasksSupplied  == GatheredTasks = <<>>

PreconditionsSucceeded ==
    /\ ~TasksFileMissing /\ ~JsonMalformed /\ ~NoTasksSupplied
    /\ Called("check_gh_cli", 0) /\ TheCall("check_gh_cli", 0).ok
    /\ Truthy(arg_repo)
         \/ (Called("get_origin_remote", 0) /\ TheCall("get_origin_remote", 0).ok)
    /\ TruthyInt(arg_project_number)
         \/ (Called("get_first_project", 0) /\ TheCall("get_first_project", 0).ok)

EveryTaskSynced == \A k \in TaskIds : LinkSucceeded(k)

Parses(url) == _parse_github_url(url) # None

RepoResolved == Called("get_origin_remote", 0)
ResolvedRepo == TheCall("get_origin_remote", 0).ref

\* sync_tasks is past 'Determine repo' (the tool check succeeded)
PastRepoStep ==
    /\ pc \in {"determine_project", "loop", "add_issue_to_project", "output", "exited"}
    /\ Called("check_gh_cli", 0) /\ TheCall("check_gh_cli", 0).ok

\* the claim as stated: the resolver returns no result only if no remote parses
C4_FallbackAsStated ==
    (RepoResolved /\ ResolvedRepo = None) =>
        \A k \in 1..Len(remotes) : ~Parses(remotes[k].url)

\* C4 (amended): a non-empty explicit repository is used and no remote is
\* inspected; otherwise, when a remote named origin exists the result is what
\* its URL parses to (no result if it does not parse, whatever the other
\* remotes are); only when origin is absent the result is what the URL of the
\* first listed remote parses to; no remote at all gives no result
C4_ResolutionOrder ==
    /\ (PastRepoStep /\ Truthy(arg_repo)) =>
          /\ ~RepoResolved
          /\ self_repo = arg_repo
    /\ RepoResolved =>
          /\ ~Truthy(arg_repo)
          /\ self_repo = ResolvedRepo
          /\ \A k \in 1..Len(remotes) :
               remotes[k].name = "origin" =>
                   ResolvedRepo = _parse_github_url(remotes[k].url)
          /\ (remotes # <<>> /\ \A k \in 1..Len(remotes) : remotes[k].name # "origin") =>
                   ResolvedRepo = _parse_github_url(remotes[1].url)
          /\ remotes = <<>> => ResolvedRepo = None
    /\ HasTaskResult =>
          /\ Truthy(self_repo)
          /\ results.repo = self_repo

C4_Witness ==
    /\ RepoResolved
    /\ Truthy(ResolvedRepo)
    /\ \A k \in 1..Len(remotes) : remotes[k].name # "origin"
    /\ Len(remotes) = 2
    /\ _parse_github_url(remotes[2].url) # ResolvedRepo
    /\ pc = "exited"

HasTitle(k) == Truthy(Get(tasks[k], "title"))

\* the tasks whose loop iteration is over
Processed == { k \in TaskIds : k < idx }
LoopOver  == HasTaskResult /\ pc \in {"output", "exited"}

\* C6: a task with an empty or missing title is recorded once as failed with
\* 'No title provided' without any tool call for it, and the batch goes on:
\* once the loop is over every task with a title has had its create_issue
\* attempt, wherever the untitled tasks stand in the list
C6_NoTitleFailsAlone ==
    HasTaskResult =>
        /\ \A k \in Processed :
             ~HasTitle(k) =>
                /\ \A j \in 1..Len(calls) : calls[j].task # k
                /\ Cardinality(FailedIdx(k)) = 1
                /\ \A j \in FailedIdx(k) :
                     /\ results.failed_tasks[j].error = "No title provided"
                     /\ "issue_url" \notin DOMAIN results.failed_tasks[j]
                /\ SyncedIdx(k) = {}
        /\ \A k \in Processed :
             HasTitle(k) => Cardinality(CallIdx("create_issue", k)) = 1
        /\ LoopOver => Processed = TaskIds
        /\ \A j \in 1..Len(results.failed_tasks) :
             results.failed_tasks[j].error = "No title provided"
                => ~HasTitle(results.failed_tasks[j].task)

C6_Witness ==
    /\ pc = "exited"
    /\ Len(tasks) = 2
    /\ Get(tasks[1], "title") = <<>>
    /\ HasTitle(2)
    /\ Called("create_issue", 2)
    /\ Cardinality({ j \in 1..Len(results.failed_tasks) :
                       results.failed_tasks[j].error = "No title provided" }) = 1

\* the path a task has taken through the per-task state machine
Linked(k) ==
    /\ CreateSucceeded(k) /\ LinkSucceeded(k)
    /\ Cardinality(SyncedIdx(k)) = 1 /\ FailedIdx(k) = {}
CreatedThenFailed(k) ==
    /\ CreateSucceeded(k) /\ LinkFailed(k)
    /\ Cardinality(FailedIdx(k)) = 1 /\ SyncedIdx(k) = {}
FailedAtOnce(k) ==
    /\ ~CreateSucceeded(k) /\ ~Called("add_issue_to_project", k)
    /\ Cardinality(FailedIdx(k)) = 1 /\ SyncedIdx(k) = {}

\* C9: no retries. create_issue is called once for a task with a title and
\* never for one without; add_issue_to_project is called at most once per
\* task, right after that task's successful create_issue and never after a
\* failed one; every processed task took exactly one of the three paths; the
\* calls run over the tasks in a single pass that ends after the last task
C9_EachTaskOnce ==
    HasTaskResult =>
        /\ \A k \in TaskIds :
             /\ Cardinality(CallIdx("create_issue", k)) <= 1
             /\ Cardinality(CallIdx("add_issue_to_project", k)) <= 1
             /\ ~HasTitle(k) => ~Called("create_issue", k)
             /\ (k \in Processed /\ HasTitle(k)) => Called("create_issue", k)
             /\ \A j \in CallIdx("add_issue_to_project", k) :
                  /\ j > 1
                  /\ calls[j - 1].op = "create_issue"
                  /\ calls[j - 1].task = k
                  /\ Truthy(calls[j - 1].ref)
             /\ (Called("create_issue", k) /\ ~CreateSucceeded(k))
                  => ~Called("add_issue_to_project", k)
        /\ \A k \in Processed :
             Cardinality({ path \in {"linked", "created_failed", "failed"} :
                 \/ path = "linked" /\ Linked(k)
                 \/ path = "created_failed" /\ CreatedThenFailed(k)
                 \/ path = "failed" /\ FailedAtOnce(k) }) = 1
        /\ \A i, j \in 1..Len(calls) : i < j => calls[i].task <= calls[j].task
        /\ \A j \in 1..Len(calls) : calls[j].task <= Len(tasks)
        /\ idx <= Len(tasks) + 1
        /\ pc = "loop" => idx <= Len(tasks)
        /\ LoopOver <=> idx = Len(tasks) + 1

C9_Witness ==
    /\ pc = "exited"
    /\ HasTaskResult
    /\ Len(tasks) = 2
    /\ \E k \in TaskIds : Linked(k)
    /\ \E k \in TaskIds : CreatedThenFailed(k) \/ (HasTitle(k) /\ FailedAtOnce(k))

StrictlyIncreasing(refs) ==
    \A i, j \in 1..Len(refs) : i < j => refs[i] < refs[j]

SyncedRefs == [j \in 1..Len(results.synced_tasks) |-> results.synced_tasks[j].task]
FailedRefs == [j \in 1..Len(results.failed_tasks) |-> results.failed_tasks[j].task]
Range(f)   == { f[j] : j \in DOMAIN f }

\* C10: synced_tasks and failed_tasks are disjoint subsequences of the input
\* (each in input order) that together hold every processed task once, so a
\* returned result has len(synced_tasks) + len(failed_tasks) = len(tasks)
C10_OrderAndAccounting ==
    HasTaskResult =>
        /\ StrictlyIncreasing(SyncedRefs)
        /\ StrictlyIncreasing(FailedRefs)
        /\ Range(SyncedRefs) \cap Range(FailedRefs) = {}
        /\ Range(SyncedRefs) \cup Range(FailedRefs) = Processed
        /\ Len(results.synced_tasks) + Len(results.failed_tasks) = Cardinality(Processed)
        /\ LoopOver =>
             /\ Range(SyncedRefs) \cup Range(FailedRefs) = TaskIds
             /\ Len(results.synced_tasks) + Len(results.failed_tasks) = Len(tasks)

C10_Witness ==
    /\ pc = "exited"
    /\ HasTaskResult
    /\ Len(tasks) = MaxTasks
    /\ Len(results.failed_tasks) >= 2

(* ======================================================================= *)
(* Properties of the package builder                                       *)
(* ======================================================================= *)
SkillIds == 1..Len(skills)

ArchiveEvents(k) ==
    { j \in 1..Len(zip_log) : zip_log[j].op = "make_archive" /\ zip_log[j].pos = k }
ArchiveFailedAt(k) == \E j \in ArchiveEvents(k) : ~zip_log[j].ok
ArchivedAt(k)      == \E j \in ArchiveEvents(k) : zip_log[j].ok
SomeArchiveFailed  == \E k \in SkillIds : ArchiveFailedAt(k)

\* the first archive-creation failure stops the batch
AbortsOnFailure ==
    \A k \in SkillIds :
        ArchiveFailedAt(k) =>
            /\ \A j \in 1..Len(zip_log) : zip_log[j].pos <= k
            /\ zip_log[Len(zip_log)].op = "make_archive"
            /\ zip_log[Len(zip_log)].pos = k
            /\ \A i \in SkillIds : i < k => ArchivedAt(i)
            /\ b_pc = "exited"
            /\ b_exit = 1
            /\ ~readme

BuildComplete ==
    /\ \A k \in SkillIds : ArchivedAt(k)
    /\ \A k \in SkillIds : zips[skills[k].name] \in { skills[i].path : i \in SkillIds }
    /\ readme
    /\ b_exit = 0

\* the claim as stated: without an archive-creation failure the listing is
\* written, whatever the number of skills
C7_AbortAsStated ==
    /\ AbortsOnFailure
    /\ (b_pc = "exited" /\ ~SomeArchiveFailed) => BuildComplete

\* C7 (amended): an archive-creation failure at position i stops the batch:
\* nothing is deleted or created for a later position, README.md is not
\* written and the exit status is nonzero; when at least one skill was found
\* and no archive creation fails, every skill is archived, README.md is
\* written and the exit status is zero; when no skill was found nothing is
\* archived, README.md is not written and the exit status is zero
C7_AbortOnFirstFailure ==
    /\ AbortsOnFailure
    /\ (b_pc = "exited" /\ ~SomeArchiveFailed /\ skills # <<>>) => BuildComplete
    /\ (b_pc = "exited" /\ skills = <<>>) =>
          /\ zip_log = <<>>
          /\ ~readme
          /\ b_exit = 0
    /\ readme => (b_exit = 0 /\ ~SomeArchiveFailed /\ skills # <<>>)

C7_Witness ==
    /\ b_pc = "exited"
    /\ Len(skills) = 3
    /\ ArchivedAt(1)
    /\ ArchiveFailedAt(2)
    /\ zips[skills[3].name] = "old"
    /\ b_exit = 1

\* C8: the names of the discovered skills are pairwise distinct, so after a
\* successful build every skill's archive holds that skill's own directory
\* and no archive made in the batch was deleted by a later skill of the batch
C8_DistinctArchives ==
    b_pc # "find_skills" =>
        /\ \A j, k \in SkillIds : j # k => skills[j].name # skills[k].name
        /\ \A j \in 1..Len(zip_log) :
             zip_log[j].op = "unlink" =>
                 \A i \in 1..Len(zip_log) :
                     i < j => zip_log[i].name # zip_log[j].name
        /\ (b_pc = "exited" /\ readme) =>
             \A k \in SkillIds : zips[skills[k].name] = skills[k].path

====
